---- MODULE Spec2Model ----
(***************************************************************************)
(* Model of jtd-infer's library entry points (src/src/lib.rs): the driver  *)
(* Inferrer (new / infer / into_schema), the wasm adapter generate_schema  *)
(* and parse_json_pointer.  The modules hints, inferred_number and         *)
(* inferred_schema are declared by lib.rs (mod ...;) but their files are   *)
(* not part of the source tree; the engine they hold is modelled from the  *)
(* repository's specification (sections 3 and 4).                          *)
(*                                                                         *)
(* JSON values are records tagged by t:                                    *)
(*   [t |-> "null"], [t |-> "bool", b], [t |-> "str", s],                  *)
(*   [t |-> "num", frac, n], [t |-> "arr", a], [t |-> "obj", m]            *)
(* A number with frac = "none" is the integer n; frac = "exact32" is the   *)
(* fractional literal n + 0.5 (exact in binary32); frac = "inexact32" is   *)
(* n + 0.1 (not exact in binary32).                                        *)
(***************************************************************************)
EXTENDS Integers, Sequences, FiniteSets, TLC

VARIABLES
    hints,      \* Inferrer.hints: the Hints the inferrer was built with
    inference,  \* Inferrer.inference: the root InferredSchema
    history,    \* the values passed to Inferrer::infer so far, in order
    emitted,    \* the Schema returned by into_schema, or NoSchema
    ptr,        \* parse_json_pointer: the argument s (a sequence of characters)
    ptrOut,     \* parse_json_pointer: the returned Vec<String>, or NotParsed
    gen         \* generate_schema: the call's parameters, position and result

vars == <<hints, inference, history, emitted, ptr, ptrOut, gen>>

-----------------------------------------------------------------------------
(* JSON values *)

JNull == [t |-> "null"]
JBool(b) == [t |-> "bool", b |-> b]
JStr(s) == [t |-> "str", s |-> s]
JInt(n) == [t |-> "num", frac |-> "none", n |-> n]
JFrac(kind, n) == [t |-> "num", frac |-> kind, n |-> n]
JArr(a) == [t |-> "arr", a |-> a]
JObj(m) == [t |-> "obj", m |-> m]

EmptyMap == [k \in {} |-> JNull]

\* the map m without key k
Without(m, k) == [j \in (DOMAIN m) \ {k} |-> m[j]]

\* the map m with key k bound to v
With(m, k, v) == [j \in (DOMAIN m) \cup {k} |-> IF j = k THEN v ELSE m[j]]

-----------------------------------------------------------------------------
(* Numeric lattice (spec sections 3 and 4.1) *)

NumTypes == {"int8", "uint8", "int16", "uint16", "int32", "uint32", "float32", "float64"}

\* the widening relation a [= b, reflexive and transitive
Widens(a, b) ==
    \/ a = b
    \/ b = "float64"
    \/ a = "int8" /\ b \in {"int16", "int32"}
    \/ a = "int16" /\ b = "int32"
    \/ a = "uint8" /\ b \in {"uint16", "uint32", "int16", "int32"}
    \/ a = "uint16" /\ b = "uint32"

\* the integers kind k holds (integer literals of the model are within TLC's
\* integer width, int32's range, so uint32's and int32's upper limits are not
\* written)
IntFits(k, n) ==
    CASE k = "int8" -> n >= -128 /\ n <= 127
      [] k = "uint8" -> n >= 0 /\ n <= 255
      [] k = "int16" -> n >= -32768 /\ n <= 32767
      [] k = "uint16" -> n >= 0 /\ n <= 65535
      [] k = "int32" -> TRUE
      [] k = "uint32" -> n >= 0
      [] OTHER -> FALSE

\* kind k represents the numeric literal v exactly
Represents(k, v) ==
    CASE k = "float64" -> TRUE
      [] k = "float32" -> IF v.frac = "none"
                          THEN v.n >= -16777216 /\ v.n <= 16777216
                          ELSE v.frac = "exact32"
      [] OTHER -> v.frac = "none" /\ IntFits(k, v.n)

\* classify: the smallest kind that represents the literal, unsigned preferred
Classify(v) ==
    IF v.frac = "none"
    THEN IF v.n >= 0
         THEN IF IntFits("uint8", v.n) THEN "uint8"
              ELSE IF IntFits("uint16", v.n) THEN "uint16" ELSE "uint32"
         ELSE IF IntFits("int8", v.n) THEN "int8"
              ELSE IF IntFits("int16", v.n) THEN "int16" ELSE "int32"
    ELSE IF v.frac = "exact32" THEN "float32" ELSE "float64"

\* the first number seen at a position: the caller's default kind when it
\* represents the literal, else the literal's own classification
ClassifyFirst(v, default) ==
    IF Represents(default, v) THEN default ELSE Classify(v)

\* join: least upper bound, float64 when there is no tighter one
Join(a, b) ==
    LET ub == {k \in NumTypes : Widens(a, k) /\ Widens(b, k)}
        least == {k \in ub : \A j \in ub : Widens(k, j)}
    IN IF least = {} THEN "float64" ELSE CHOOSE k \in least : TRUE

-----------------------------------------------------------------------------
(* Hints (spec section 4.2) *)

\* the tag property a discriminator-hinted position is keyed on
TagProperty == "kind"

Hints_new(default_num_type, enums, values, discriminator) ==
    [default_num_type |-> default_num_type, enums |-> enums,
     values |-> values, discriminator |-> discriminator]

\* exact-path membership
Matches(hint_set, path) == path \in hint_set

\* RFC 3339 timestamps among the string literals of the model
TimestampStrings == {"2020-01-01T00:00:00Z", "1999-12-31T23:59:59Z"}

IsTimestamp(s) == s \in TimestampStrings

-----------------------------------------------------------------------------
(* InferredSchema (spec section 3): a variant v and the nullable flag *)

Unknown == [v |-> "Unknown", nullable |-> FALSE]
Node(variant, nullable) == [v |-> variant, nullable |-> nullable]
NumberNode(k, nullable) == [v |-> "Number", nullable |-> nullable, num |-> k]
EnumNode(vals, nullable) == [v |-> "Enum", nullable |-> nullable, vals |-> vals]
ElementsNode(c, nullable) == [v |-> "Elements", nullable |-> nullable, child |-> c]
ValuesNode(c, nullable) == [v |-> "Values", nullable |-> nullable, child |-> c]
PropertiesNode(props, required, nullable) ==
    [v |-> "Properties", nullable |-> nullable, props |-> props, required |-> required]
DiscriminatorNode(tag, mapping, nullable) ==
    [v |-> "Discriminator", nullable |-> nullable, tag |-> tag, mapping |-> mapping]

\* the keys of a finite set in a fixed order
RECURSIVE SetToSeq(_)
SetToSeq(S) ==
    IF S = {} THEN <<>>
    ELSE LET x == CHOOSE y \in S : TRUE IN <<x>> \o SetToSeq(S \ {x})

-----------------------------------------------------------------------------
(* Merge (spec section 4.3) *)

RECURSIVE InferSchema(_, _, _, _)
RECURSIVE InferEach(_, _, _, _)
RECURSIVE InferMembers(_, _, _, _, _)

\* per-key merge of the object members m into a Properties position; a position
\* that is not Properties yet takes every key of m as required
InferProperties(current, m, path, h) ==
    LET old == IF current.v = "Properties" THEN current.props ELSE EmptyMap
        props == [k \in (DOMAIN old) \cup (DOMAIN m) |->
                    IF k \in DOMAIN m
                    THEN InferSchema(IF k \in DOMAIN old THEN old[k] ELSE Unknown,
                                     m[k], Append(path, k), h)
                    ELSE old[k]]
        required == IF current.v = "Properties"
                    THEN current.required \cap (DOMAIN m)
                    ELSE DOMAIN m
    IN PropertiesNode(props, required, current.nullable)

\* merge into the variant keyed by the object's tag value; the tag property is
\* left out of the variant's own sub-schema.  An object without a string under
\* the tag property fits no variant: an incompatible shape, hence Any
InferDiscriminator(current, m, path, h) ==
    LET tag == TagProperty
        old == IF current.v = "Discriminator" THEN current.mapping ELSE EmptyMap
    IN IF tag \in DOMAIN m /\ m[tag].t = "str"
       THEN LET tv == m[tag].s
                sub == IF tv \in DOMAIN old THEN old[tv] ELSE Unknown
            IN DiscriminatorNode(tag,
                   With(old, tv, InferProperties(sub, Without(m, tag), path, h)),
                   current.nullable)
       ELSE Node("Any", current.nullable)

\* the first non-null value seen at a position
InferFresh(current, value, path, h) ==
    CASE value.t = "bool" -> Node("Boolean", current.nullable)
      [] value.t = "num" ->
            NumberNode(ClassifyFirst(value, h.default_num_type), current.nullable)
      [] value.t = "str" ->
            IF Matches(h.enums, path) THEN EnumNode({value.s}, current.nullable)
            ELSE IF IsTimestamp(value.s) THEN Node("Timestamp", current.nullable)
            ELSE Node("String", current.nullable)
      [] value.t = "arr" ->
            ElementsNode(InferEach(Unknown, value.a, path, h), current.nullable)
      [] value.t = "obj" ->
            IF Matches(h.discriminator, path)
            THEN InferDiscriminator(current, value.m, path, h)
            ELSE IF Matches(h.values, path)
            THEN ValuesNode(InferMembers(Unknown, value.m, SetToSeq(DOMAIN value.m), path, h),
                            current.nullable)
            ELSE InferProperties(current, value.m, path, h)

InferSchema(current, value, path, h) ==
    IF value.t = "null" THEN [current EXCEPT !.nullable = TRUE]
    ELSE IF current.v = "Unknown" THEN InferFresh(current, value, path, h)
    ELSE IF current.v = "Boolean" /\ value.t = "bool" THEN current
    ELSE IF current.v = "Number" /\ value.t = "num"
         THEN NumberNode(Join(current.num, Classify(value)), current.nullable)
    ELSE IF current.v = "String" /\ value.t = "str" THEN current
    ELSE IF current.v = "Timestamp" /\ value.t = "str"
         THEN IF IsTimestamp(value.s) THEN current ELSE Node("String", current.nullable)
    ELSE IF current.v = "Enum" /\ value.t = "str"
         THEN EnumNode(current.vals \cup {value.s}, current.nullable)
    ELSE IF current.v = "Elements" /\ value.t = "arr"
         THEN ElementsNode(InferEach(current.child, value.a, path, h), current.nullable)
    ELSE IF current.v = "Properties" /\ value.t = "obj"
         THEN InferProperties(current, value.m, path, h)
    ELSE IF current.v = "Values" /\ value.t = "obj"
         THEN ValuesNode(InferMembers(current.child, value.m, SetToSeq(DOMAIN value.m), path, h),
                         current.nullable)
    ELSE IF current.v = "Discriminator" /\ value.t = "obj"
         THEN InferDiscriminator(current, value.m, path, h)
    ELSE Node("Any", current.nullable)

\* every element of an array is merged into the one child, at the array's path
InferEach(current, vals, path, h) ==
    IF vals = <<>> THEN current
    ELSE InferEach(InferSchema(current, Head(vals), path, h), Tail(vals), path, h)

\* every member value of a map is merged into the one child, each at the path
\* extended by its key (only array traversal leaves the path as it is)
InferMembers(current, m, keys, path, h) ==
    IF keys = <<>> THEN current
    ELSE InferMembers(InferSchema(current, m[Head(keys)], Append(path, Head(keys)), h),
                      m, Tail(keys), path, h)

-----------------------------------------------------------------------------
(* Emission (spec section 4.4): the JTD schema of an InferredSchema *)

RECURSIVE Emit(_)
Emit(node) ==
    CASE node.v \in {"Unknown", "Any"} -> [form |-> "empty", nullable |-> node.nullable]
      [] node.v = "Boolean" -> [form |-> "type", nullable |-> node.nullable, type |-> "boolean"]
      [] node.v = "String" -> [form |-> "type", nullable |-> node.nullable, type |-> "string"]
      [] node.v = "Timestamp" ->
            [form |-> "type", nullable |-> node.nullable, type |-> "timestamp"]
      [] node.v = "Number" -> [form |-> "type", nullable |-> node.nullable, type |-> node.num]
      [] node.v = "Enum" -> [form |-> "enum", nullable |-> node.nullable, enum |-> node.vals]
      [] node.v = "Elements" ->
            [form |-> "elements", nullable |-> node.nullable, elements |-> Emit(node.child)]
      [] node.v = "Values" ->
            [form |-> "values", nullable |-> node.nullable, values |-> Emit(node.child)]
      [] node.v = "Properties" ->
            [form |-> "properties", nullable |-> node.nullable,
             properties |-> [k \in node.required |-> Emit(node.props[k])],
             optionalProperties |->
                [k \in (DOMAIN node.props) \ node.required |-> Emit(node.props[k])]]
      [] node.v = "Discriminator" ->
            [form |-> "discriminator", nullable |-> node.nullable,
             discriminator |-> node.tag,
             mapping |-> [tv \in DOMAIN node.mapping |-> Emit(node.mapping[tv])]]

-----------------------------------------------------------------------------
(* JTD validation (RFC 8927 section 3.3): schema accepts value *)

RECURSIVE Accepts(_, _)
Accepts(schema, value) ==
    \/ schema.nullable /\ value.t = "null"
    \/ CASE schema.form = "empty" -> TRUE
         [] schema.form = "type" ->
              CASE schema.type = "boolean" -> value.t = "bool"
                [] schema.type = "string" -> value.t = "str"
                [] schema.type = "timestamp" -> value.t = "str" /\ IsTimestamp(value.s)
                [] schema.type \in {"float32", "float64"} -> value.t = "num"
                [] OTHER -> /\ value.t = "num"
                            /\ value.frac = "none"
                            /\ IntFits(schema.type, value.n)
         [] schema.form = "enum" -> value.t = "str" /\ value.s \in schema.enum
         [] schema.form = "elements" ->
              /\ value.t = "arr"
              /\ \A i \in DOMAIN value.a : Accepts(schema.elements, value.a[i])
         [] schema.form = "values" ->
              /\ value.t = "obj"
              /\ \A k \in DOMAIN value.m : Accepts(schema.values, value.m[k])
         [] schema.form = "properties" ->
              /\ value.t = "obj"
              /\ DOMAIN schema.properties \subseteq DOMAIN value.m
              /\ \A k \in DOMAIN value.m :
                    \/ k \in DOMAIN schema.properties
                       /\ Accepts(schema.properties[k], value.m[k])
                    \/ k \in DOMAIN schema.optionalProperties
                       /\ Accepts(schema.optionalProperties[k], value.m[k])
         [] schema.form = "discriminator" ->
              /\ value.t = "obj"
              /\ schema.discriminator \in DOMAIN value.m
              /\ value.m[schema.discriminator].t = "str"
              /\ value.m[schema.discriminator].s \in DOMAIN schema.mapping
              /\ Accepts(schema.mapping[value.m[schema.discriminator].s],
                         JObj(Without(value.m, schema.discriminator)))
-----------------------------------------------------------------------------
(* The driver: Inferrer (src/src/lib.rs) *)

NoSchema == [form |-> "none"]
NoInferrer == [v |-> "NoInferrer"]
NoHints == [none |-> TRUE]

\* Inferrer::new: the root starts Unknown
Inferrer_new(h) == [inference |-> Unknown, hints |-> h]

\* Inferrer::infer with the slip of merging into a fresh inference instead of
\* self.inference
Inferrer_infer_forgets(self, value) ==
    [inference |-> InferSchema(Unknown, value, <<>>, self.hints),
     hints |-> self.hints]

\* Inferrer::infer: the root inference merged with value, the hints kept
Inferrer_infer(self, value) ==
    [inference |-> InferSchema(self.inference, value, <<>>, self.hints),
     hints |-> self.hints]

\* Inferrer::into_schema
Inferrer_into_schema(self) == Emit(self.inference)

\* the inferrer held in the state
Self == [inference |-> inference, hints |-> hints]

\* the inferrer after seq's values went through Inferrer::infer, in order
RECURSIVE Fold(_, _)
Fold(self, seq) ==
    IF seq = <<>> THEN self ELSE Fold(Inferrer_infer(self, Head(seq)), Tail(seq))

\* a call of Inferrer::infer; into_schema moves the inferrer, so none follows it
Infer(value) ==
    /\ emitted = NoSchema
    /\ inference' = Inferrer_infer(Self, value).inference
    /\ hints' = Inferrer_infer(Self, value).hints
    /\ history' = Append(history, value)
    /\ UNCHANGED <<emitted, ptr, ptrOut, gen>>

\* a call of Inferrer::into_schema
IntoSchema ==
    /\ emitted = NoSchema
    /\ emitted' = Inferrer_into_schema(Self)
    /\ UNCHANGED <<hints, inference, history, ptr, ptrOut, gen>>

-----------------------------------------------------------------------------
(* parse_json_pointer (src/src/lib.rs); a str is a sequence of characters *)

\* String::from of a character sequence
RECURSIVE Cat(_)
Cat(cs) == IF cs = <<>> THEN "" ELSE Head(cs) \o Cat(Tail(cs))

\* str::replace of the two-character pattern <<a, b>> by the character to:
\* non-overlapping matches, left to right
RECURSIVE Replace(_, _, _, _)
Replace(s, a, b, to) ==
    IF Len(s) < 2 THEN s
    ELSE IF s[1] = a /\ s[2] = b
         THEN <<to>> \o Replace(SubSeq(s, 3, Len(s)), a, b, to)
         ELSE <<s[1]>> \o Replace(Tail(s), a, b, to)

\* str::split on the character sep: one more piece than separators
RECURSIVE Split(_, _)
Split(s, sep) ==
    IF \A i \in DOMAIN s : s[i] # sep THEN <<s>>
    ELSE LET i == CHOOSE j \in DOMAIN s : s[j] = sep /\ \A k \in 1..(j - 1) : s[k] # sep
         IN <<SubSeq(s, 1, i - 1)>> \o Split(SubSeq(s, i + 1, Len(s)), sep)

parse_json_pointer(s) ==
    IF s = <<>> THEN <<>>
    ELSE LET pieces == Split(Replace(Replace(s, "~", "1", "/"), "!", "0", "~"), "/")
             kept == Tail(pieces)
         IN [i \in DOMAIN kept |-> Cat(kept[i])]

NotParsed == [done |-> FALSE]

\* a call of parse_json_pointer on the pointer held in ptr
ParseJsonPointer ==
    /\ ptrOut = NotParsed
    /\ ptrOut' = [done |-> TRUE, path |-> parse_json_pointer(ptr)]
    /\ UNCHANGED <<hints, inference, history, emitted, ptr, gen>>

-----------------------------------------------------------------------------
(* generate_schema (src/src/lib.rs) *)

\* a stream item the decoder cannot decode
Malformed == [t |-> "malformed"]

GenIdle == [pc |-> "idle"]

NoResult == [kind |-> "none"]
Err(msg) == [kind |-> "err", msg |-> msg]
Ok(text) == [kind |-> "ok", text |-> text]

\* serde_json::to_string of the serde schema
to_string(schema) == [json |-> schema]

NumTypeOfName(name) ==
    CASE name = "int8" -> "int8"
      [] name = "uint8" -> "uint8"
      [] name = "int16" -> "int16"
      [] name = "uint16" -> "uint16"
      [] name = "int32" -> "int32"
      [] name = "uint32" -> "uint32"
      [] name = "float32" -> "float32"
      [] name = "float64" -> "float64"
      [] OTHER -> "invalid"

\* HintSet::new over the parsed pointers
HintSet_new(paths) == {paths[i] : i \in DOMAIN paths}

ParseAll(hs) == [i \in DOMAIN hs |-> parse_json_pointer(hs[i])]

GenStart(params) ==
    [pc |-> "from_value", params |-> params, enum_hints |-> <<>>, values_hints |-> <<>>,
     discriminator_hints |-> <<>>, default_num_type |-> "unset", pos |-> 0,
     result |-> NoResult]

GenReturn(result) == [gen EXCEPT !.pc = "done", !.result = result]

\* from_value(params_js): an undeserializable parameter object is an error
GenFromValue ==
    /\ gen.pc = "from_value"
    /\ gen' = IF gen.params.valid THEN [gen EXCEPT !.pc = "parse_hints"]
              ELSE GenReturn(Err("from_value"))
    /\ UNCHANGED <<hints, inference, history, emitted, ptr, ptrOut>>

\* the three hint lists, each pointer through parse_json_pointer
GenParseHints ==
    /\ gen.pc = "parse_hints"
    /\ gen' = [gen EXCEPT !.pc = "match_default",
                          !.enum_hints = ParseAll(gen.params.enumHints),
                          !.values_hints = ParseAll(gen.params.valuesHints),
                          !.discriminator_hints = ParseAll(gen.params.discriminatorHints)]
    /\ UNCHANGED <<hints, inference, history, emitted, ptr, ptrOut>>

\* match with the slip of a catch-all arm that falls back to uint8
GenMatchDefaultFallsBack ==
    /\ gen.pc = "match_default"
    /\ gen' = [gen EXCEPT !.pc = "new_inferrer",
                          !.default_num_type =
                              IF NumTypeOfName(gen.params.defaultNumberType) = "invalid"
                              THEN "uint8"
                              ELSE NumTypeOfName(gen.params.defaultNumberType)]
    /\ UNCHANGED <<hints, inference, history, emitted, ptr, ptrOut>>

\* match params.defaultNumberType: an unknown name returns the error
GenMatchDefault ==
    /\ gen.pc = "match_default"
    /\ gen' = IF NumTypeOfName(gen.params.defaultNumberType) = "invalid"
              THEN GenReturn(Err("Invalid default number type"))
              ELSE [gen EXCEPT !.pc = "new_inferrer",
                               !.default_num_type =
                                   NumTypeOfName(gen.params.defaultNumberType)]
    /\ UNCHANGED <<hints, inference, history, emitted, ptr, ptrOut>>

\* Hints::new and Inferrer::new
GenNewInferrer ==
    /\ gen.pc = "new_inferrer"
    /\ LET h == Hints_new(gen.default_num_type, HintSet_new(gen.enum_hints),
                          HintSet_new(gen.values_hints),
                          HintSet_new(gen.discriminator_hints))
       IN /\ hints' = Inferrer_new(h).hints
          /\ inference' = Inferrer_new(h).inference
    /\ gen' = [gen EXCEPT !.pc = "stream"]
    /\ UNCHANGED <<history, emitted, ptr, ptrOut>>

\* the loop with the slip of skipping an item that does not decode
GenStreamNextSkips ==
    /\ gen.pc = "stream"
    /\ gen.pos < Len(gen.params.input)
    /\ LET item == gen.params.input[gen.pos + 1]
       IN IF item = Malformed
          THEN /\ gen' = [gen EXCEPT !.pos = gen.pos + 1]
               /\ UNCHANGED <<hints, inference, history>>
          ELSE /\ inference' = Inferrer_infer(Self, item).inference
               /\ hints' = Inferrer_infer(Self, item).hints
               /\ history' = Append(history, item)
               /\ gen' = [gen EXCEPT !.pos = gen.pos + 1]
    /\ UNCHANGED <<emitted, ptr, ptrOut>>

\* one turn of the loop over the stream: a decoding error returns it, a
\* decoded value is folded
GenStreamNext ==
    /\ gen.pc = "stream"
    /\ gen.pos < Len(gen.params.input)
    /\ LET item == gen.params.input[gen.pos + 1]
       IN IF item = Malformed
          THEN /\ gen' = GenReturn(Err("decode"))
               /\ UNCHANGED <<hints, inference, history>>
          ELSE /\ inference' = Inferrer_infer(Self, item).inference
               /\ hints' = Inferrer_infer(Self, item).hints
               /\ history' = Append(history, item)
               /\ gen' = [gen EXCEPT !.pos = gen.pos + 1]
    /\ UNCHANGED <<emitted, ptr, ptrOut>>

\* the stream is exhausted: into_schema, into_serde_schema, to_string
GenFinish ==
    /\ gen.pc = "stream"
    /\ gen.pos = Len(gen.params.input)
    /\ emitted' = Inferrer_into_schema(Self)
    /\ gen' = GenReturn(Ok(to_string(Inferrer_into_schema(Self))))
    /\ UNCHANGED <<hints, inference, history, ptr, ptrOut>>

-----------------------------------------------------------------------------
(* Inputs *)

Obj1(k, v) == JObj([j \in {k} |-> v])
Obj2(k1, v1, k2, v2) == JObj([j \in {k1, k2} |-> IF j = k1 THEN v1 ELSE v2])
Obj3(k1, v1, k2, v2, k3, v3) ==
    JObj([j \in {k1, k2, k3} |-> IF j = k1 THEN v1 ELSE IF j = k2 THEN v2 ELSE v3])

TS == "2020-01-01T00:00:00Z"
Root == <<>>

\* the examples of the general specification: every JSON shape, flat and nested
Examples ==
    { JNull, JBool(TRUE), JInt(1), JInt(300), JInt(-1), JFrac("exact32", 0),
      JFrac("inexact32", 0), JStr("xxx"), JStr(TS),
      JArr(<<JInt(1), JInt(-1)>>), JArr(<<JStr(TS), JNull>>),
      Obj2("foo", JBool(TRUE), "bar", JStr("xxx")),
      Obj3("foo", JBool(FALSE), "bar", JNull, "baz", JInt(5)),
      Obj2("kind", JStr("a"), "x", JInt(1)),
      Obj2("kind", JStr("b"), "y", JBool(TRUE)),
      Obj1("kind", JInt(1)) }

\* numbers of every kind's range, integral and fractional
Numbers ==
    { JInt(1), JInt(2), JInt(300), JInt(-1), JInt(200), JInt(-200), JInt(70000),
      JInt(-70000), JFrac("exact32", 0), JFrac("inexact32", 0) }

\* objects over the keys foo, bar, baz
Objects ==
    { JObj(EmptyMap),
      Obj2("foo", JBool(TRUE), "bar", JStr("xxx")),
      Obj3("foo", JBool(FALSE), "bar", JNull, "baz", JInt(5)),
      Obj1("foo", JBool(TRUE)),
      Obj2("bar", JStr("xxx"), "baz", JInt(300)),
      Obj2("foo", JNull, "bar", JStr(TS)),
      Obj3("foo", JInt(1), "bar", JStr(TS), "baz", JInt(-1)),
      Obj1("baz", Obj1("foo", JBool(TRUE))),
      Obj1("baz", JObj(EmptyMap)),
      Obj2("foo", JArr(<<JInt(1), JNull>>), "baz", JNull) }

\* objects carrying a string under the tag property
Tagged ==
    { Obj2("kind", JStr("a"), "x", JInt(1)),
      Obj2("kind", JStr("b"), "y", JBool(TRUE)),
      Obj1("kind", JStr("a")),
      Obj3("kind", JStr("a"), "x", JInt(300), "y", JNull),
      Obj3("kind", JStr("b"), "y", JBool(FALSE), "x", JStr("xxx")),
      Obj2("kind", JStr("b"), "x", JInt(-1)),
      Obj2("kind", JStr("c"), "kind2", JStr("a")),
      Obj1("kind", JStr("c")) }

\* the hint-path configurations: none, enum, values, discriminator
HintPaths ==
    { [enums |-> {}, values |-> {}, discriminator |-> {}],
      [enums |-> {Root, <<"bar">>}, values |-> {}, discriminator |-> {}],
      [enums |-> {}, values |-> {Root}, discriminator |-> {}],
      [enums |-> {}, values |-> {}, discriminator |-> {Root}] }

HintConfigs ==
    { Hints_new(d, p.enums, p.values, p.discriminator) : d \in NumTypes, p \in HintPaths }

NoHintConfigs == { Hints_new(d, {}, {}, {}) : d \in NumTypes }

DiscriminatorConfigs == { Hints_new(d, {}, {}, {Root}) : d \in NumTypes }

\* longest example sequences folded by one inferrer
MaxExamples == 3
MaxNumbers == 3
MaxObjects == 3
MaxTagged == 3

\* a fresh inferrer built with one of the configurations of cfgs
InitInferrer(cfgs) ==
    /\ hints \in cfgs
    /\ inference = Inferrer_new(hints).inference
    /\ history = <<>>
    /\ emitted = NoSchema
    /\ ptr = <<>>
    /\ ptrOut = NotParsed
    /\ gen = GenIdle

Init == InitInferrer(HintConfigs)

Next ==
    \/ \E value \in Examples : Len(history) < MaxExamples /\ Infer(value)
    \/ IntoSchema

Spec == Init /\ [][Next]_vars

InitNumbers == InitInferrer(NoHintConfigs)

NextNumbers ==
    \/ \E value \in Numbers : Len(history) < MaxNumbers /\ Infer(value)
    \/ IntoSchema

SpecNumbers == InitNumbers /\ [][NextNumbers]_vars

InitObjects == InitInferrer(NoHintConfigs)

NextObjects ==
    \/ \E value \in Objects : Len(history) < MaxObjects /\ Infer(value)
    \/ IntoSchema

SpecObjects == InitObjects /\ [][NextObjects]_vars

InitDiscriminator == InitInferrer(DiscriminatorConfigs)

NextDiscriminator ==
    \/ \E value \in Tagged : Len(history) < MaxTagged /\ Infer(value)
    \/ IntoSchema

SpecDiscriminator == InitDiscriminator /\ [][NextDiscriminator]_vars

\* pointers: every string over the characters that matter, up to MaxPtrLen
PtrChars == {"/", "~", "!", "0", "1", "a"}
MaxPtrLen == 4

RECURSIVE StringsUpTo(_)
StringsUpTo(n) ==
    IF n = 0 THEN {<<>>}
    ELSE LET shorter == StringsUpTo(n - 1)
         IN shorter \cup {Append(s, c) : s \in shorter, c \in PtrChars}

InitPointer ==
    /\ ptr \in StringsUpTo(MaxPtrLen)
    /\ ptrOut = NotParsed
    /\ hints = NoHints
    /\ inference = NoInferrer
    /\ history = <<>>
    /\ emitted = NoSchema
    /\ gen = GenIdle

NextPointer == ParseJsonPointer

SpecPointer == InitPointer /\ [][NextPointer]_vars

\* generate_schema's parameters
MaxStream == 2

StreamItems ==
    { JInt(1), JInt(300), JStr("xxx"), Obj2("kind", JStr("a"), "x", JInt(1)), Malformed }

RECURSIVE StreamsUpTo(_)
StreamsUpTo(n) ==
    IF n = 0 THEN {<<>>}
    ELSE LET shorter == StreamsUpTo(n - 1)
         IN shorter \cup {Append(s, i) : s \in shorter, i \in StreamItems}

NumberTypeNames == NumTypes \cup {"int64", ""}

GenParams ==
    [ valid : BOOLEAN,
      input : StreamsUpTo(MaxStream),
      enumHints : {<<>>},
      valuesHints : {<<>>, << <<"/", "x">> >>},
      discriminatorHints : {<<>>, << <<>> >>},
      defaultNumberType : NumberTypeNames ]

InitGenerate ==
    /\ \E params \in GenParams : gen = GenStart(params)
    /\ hints = NoHints
    /\ inference = NoInferrer
    /\ history = <<>>
    /\ emitted = NoSchema
    /\ ptr = <<>>
    /\ ptrOut = NotParsed

NextGenerate ==
    \/ GenFromValue
    \/ GenParseHints
    \/ GenMatchDefault
    \/ GenNewInferrer
    \/ GenStreamNext
    \/ GenFinish

SpecGenerate == InitGenerate /\ [][NextGenerate]_vars

-----------------------------------------------------------------------------
(* Properties *)

\* the schema into_schema returns in the current state
Current == Inferrer_into_schema(Self)

\* the schema a fresh inferrer with the same hints returns after folding seq
SchemaAfter(seq) == Inferrer_into_schema(Fold(Inferrer_new(hints), seq))

(* C1: soundness -- after every prefix of the folded values, the schema     *)
(* into_schema returns accepts every value of the prefix.                   *)
Soundness ==
    /\ \A i \in DOMAIN history : Accepts(Current, history[i])
    /\ emitted # NoSchema => \A i \in DOMAIN history : Accepts(emitted, history[i])

\* three different shapes folded, and a schema with structure emitted
SoundnessWitness ==
    /\ Len(history) = 3
    /\ history[1].t = "obj" /\ history[2].t = "obj" /\ history[3].t = "null"
    /\ history[1] # history[2]
    /\ emitted # NoSchema
    /\ emitted.form = "properties"

\* the keys of the i-th folded object, and the keys of all of them
KeysOf(i) == DOMAIN history[i].m
SeenKeys == UNION {KeysOf(i) : i \in DOMAIN history}

\* the values folded under key k, in order
RECURSIVE ValuesUnder(_, _)
ValuesUnder(seq, k) ==
    IF seq = <<>> THEN <<>>
    ELSE (IF k \in DOMAIN Head(seq).m THEN <<Head(seq).m[k]>> ELSE <<>>)
         \o ValuesUnder(Tail(seq), k)

QuickStart1 == Obj2("foo", JBool(TRUE), "bar", JStr("xxx"))
QuickStart2 == Obj3("foo", JBool(FALSE), "bar", JNull, "baz", JInt(5))

QuickStartSchema ==
    [form |-> "properties", nullable |-> FALSE,
     properties |->
        [k \in {"foo", "bar"} |->
            IF k = "foo" THEN [form |-> "type", nullable |-> FALSE, type |-> "boolean"]
            ELSE [form |-> "type", nullable |-> TRUE, type |-> "string"]],
     optionalProperties |->
        [k \in {"baz"} |-> [form |-> "type", nullable |-> FALSE, type |-> "uint8"]]]

(* C2: with no hints, after folding a non-empty sequence of objects the     *)
(* emitted schema is an object schema; a key is required iff it was in      *)
(* every folded object and optional iff it was in some but not all; each    *)
(* key's sub-schema is the schema inferred from the values seen under it,   *)
(* nullable iff null was seen under it; the quick-start pair with default   *)
(* uint8 gives foo boolean, bar nullable string, optional baz uint8.        *)
RequiredOptionalPartition ==
    history # <<>> =>
        /\ Current.form = "properties"
        /\ DOMAIN Current.properties =
              {k \in SeenKeys : \A i \in DOMAIN history : k \in KeysOf(i)}
        /\ DOMAIN Current.optionalProperties =
              {k \in SeenKeys : \E i \in DOMAIN history : k \notin KeysOf(i)}
        /\ \A k \in SeenKeys :
              LET sub == IF k \in DOMAIN Current.properties
                         THEN Current.properties[k]
                         ELSE Current.optionalProperties[k]
              IN /\ sub = Emit(InferEach(Unknown, ValuesUnder(history, k), <<k>>, hints))
                 /\ sub.nullable <=>
                        \E i \in DOMAIN history : k \in KeysOf(i) /\ history[i].m[k] = JNull
        /\ (hints.default_num_type = "uint8" /\ history = <<QuickStart1, QuickStart2>>)
              => Current = QuickStartSchema

\* the quick-start pair folded under default uint8, and its schema emitted
QuickStartWitness ==
    /\ hints.default_num_type = "uint8"
    /\ history = <<QuickStart1, QuickStart2>>
    /\ emitted = QuickStartSchema

(* C3: commutativity -- folding a then b emits the same schema as folding   *)
(* b then a, under the same hints and default numeric kind.                 *)
Commutativity ==
    Len(history) = 2 => SchemaAfter(<<history[2], history[1]>>) = Current

\* required keys never grow and optional keys never leave, at every object
\* position of the schema before (a) and after (b) a fold
RECURSIVE RequiredShrinks(_, _)
RequiredShrinks(a, b) ==
    CASE a.form = "properties" /\ b.form = "properties" ->
            /\ DOMAIN b.properties \subseteq DOMAIN a.properties
            /\ DOMAIN a.optionalProperties \subseteq DOMAIN b.optionalProperties
            /\ \A k \in DOMAIN a.properties :
                  RequiredShrinks(a.properties[k],
                                  IF k \in DOMAIN b.properties THEN b.properties[k]
                                  ELSE b.optionalProperties[k])
            /\ \A k \in DOMAIN a.optionalProperties :
                  RequiredShrinks(a.optionalProperties[k], b.optionalProperties[k])
      [] a.form = "elements" /\ b.form = "elements" ->
            RequiredShrinks(a.elements, b.elements)
      [] OTHER -> TRUE

(* C7: optionality demotion is monotone -- at an object position without    *)
(* values or discriminator hint, a fold never adds a key to the required    *)
(* set, and a key once optional is listed as optional after every later     *)
(* fold, also when every later object carries it.                           *)
DemotionIsMonotone ==
    [][ /\ Current.form = "properties" => Current'.form = "properties"
        /\ RequiredShrinks(Current, Current')
        /\ \A k \in SeenKeys' :
              (\E i \in DOMAIN history' : k \notin KeysOf(i)')
                 => k \in DOMAIN Current'.optionalProperties ]_vars

\* foo present, then absent, then present again: optional at the end
DemotionWitness ==
    /\ Len(history) = 3
    /\ "foo" \in KeysOf(1) /\ "foo" \notin KeysOf(2) /\ "foo" \in KeysOf(3)
    /\ "foo" \in DOMAIN Current.optionalProperties
    /\ "foo" \notin DOMAIN Current.properties

\* a position once nullable stays nullable, at every position the schema
\* before (a) and the schema after (b) a fold both have
RECURSIVE NullableKept(_, _)
NullableKept(a, b) ==
    /\ a.nullable => b.nullable
    /\ CASE a.form = "properties" /\ b.form = "properties" ->
               /\ \A k \in (DOMAIN a.properties) \cap (DOMAIN b.properties) :
                     NullableKept(a.properties[k], b.properties[k])
               /\ \A k \in (DOMAIN a.properties) \cap (DOMAIN b.optionalProperties) :
                     NullableKept(a.properties[k], b.optionalProperties[k])
               /\ \A k \in (DOMAIN a.optionalProperties) \cap (DOMAIN b.optionalProperties) :
                     NullableKept(a.optionalProperties[k], b.optionalProperties[k])
         [] a.form = "elements" /\ b.form = "elements" ->
               NullableKept(a.elements, b.elements)
         [] a.form = "values" /\ b.form = "values" -> NullableKept(a.values, b.values)
         [] a.form = "discriminator" /\ b.form = "discriminator" ->
               \A tv \in (DOMAIN a.mapping) \cap (DOMAIN b.mapping) :
                  NullableKept(a.mapping[tv], b.mapping[tv])
         [] OTHER -> TRUE

(* C8: nullable monotonicity -- once null was folded at a position, the     *)
(* schema emitted for it is nullable after that fold and after every later  *)
(* fold, whatever is folded later, also when the position turns into Any.   *)
NullableMonotone ==
    [][ /\ NullableKept(Current, Current')
        /\ (\E i \in DOMAIN history' : history'[i] = JNull) => Current'.nullable
        /\ emitted' # NoSchema => emitted'.nullable = Current'.nullable ]_vars

\* null, then two values of conflicting shapes: the root is Any, and nullable
NullableWitness ==
    /\ Len(history) = 3
    /\ history[1] = JNull /\ history[2].t = "bool" /\ history[3].t = "num"
    /\ Current.form = "empty"
    /\ Current.nullable
    /\ emitted # NoSchema

SignedIntKinds == {"int8", "int16", "int32"}

\* a fold of a number widens the emitted kind, which represents every number
\* folded so far
WideningStep ==
    /\ Current.form = "type" => Current'.form = "type" /\ Widens(Current.type, Current'.type)
    /\ history' # <<>> =>
          /\ Current'.form = "type"
          /\ \A i \in DOMAIN history' : Represents(Current'.type, history'[i])

\* the two folds section 8 names
WideningExamples ==
    /\ history = <<JInt(1), JInt(2), JInt(300)>> => Current.type = "uint16"
    /\ history = <<JInt(1), JInt(-1)>> => Current.type \in SignedIntKinds

(* C9 as stated: numeric widening -- the kind emitted after a fold is equal *)
(* to or wider than the kind before it and represents every number folded; *)
(* folding 1, 2, 300 yields uint16 and folding 1, -1 yields a signed kind,  *)
(* whatever the default numeric kind.                                       *)
NumericWideningAnyDefault == [][WideningStep /\ WideningExamples']_vars

(* C9, amended: numeric widening -- the kind emitted after a fold is equal  *)
(* to or wider than the kind before it and represents every number folded; *)
(* with default numeric kind uint8, folding 1, 2, 300 yields uint16 and     *)
(* folding 1, -1 yields a signed kind.                                      *)
NumericWidening ==
    [][WideningStep /\ (hints'.default_num_type = "uint8" => WideningExamples')]_vars

\* 1, 2, 300 folded under default uint8: uint16
WideningWitness ==
    /\ hints.default_num_type = "uint8"
    /\ history = <<JInt(1), JInt(2), JInt(300)>>
    /\ Current.type = "uint16"
    /\ emitted = Current

TagOf(value) == value.m[TagProperty].s
TagsSeen == {TagOf(history[i]) : i \in DOMAIN history}

\* the examples of seq tagged tv, the tag property taken out
RECURSIVE VariantExamples(_, _)
VariantExamples(seq, tv) ==
    IF seq = <<>> THEN <<>>
    ELSE (IF TagOf(Head(seq)) = tv THEN <<JObj(Without(Head(seq).m, TagProperty))>> ELSE <<>>)
         \o VariantExamples(Tail(seq), tv)

\* the object schema of seq's objects, merged without the discriminator hint
ObjectSchemaOf(seq) ==
    Inferrer_into_schema(Fold(Inferrer_new([hints EXCEPT !.discriminator = {}]), seq))

\* a discriminator schema on the tag property, one mapping entry per tag value
\* seen, each the object schema of the examples so tagged, without the tag
MappingPerTag ==
    history # <<>> =>
        /\ Current.form = "discriminator"
        /\ Current.discriminator = TagProperty
        /\ DOMAIN Current.mapping = TagsSeen
        /\ \A tv \in TagsSeen :
              /\ Current.mapping[tv] = ObjectSchemaOf(VariantExamples(history, tv))
              /\ Current.mapping[tv].form = "properties"
              /\ TagProperty \notin DOMAIN Current.mapping[tv].properties
              /\ TagProperty \notin DOMAIN Current.mapping[tv].optionalProperties

TaggedA == Obj2("kind", JStr("a"), "x", JInt(1))
TaggedB == Obj2("kind", JStr("b"), "y", JBool(TRUE))

TaggedSchema ==
    [form |-> "discriminator", nullable |-> FALSE, discriminator |-> "kind",
     mapping |->
        [tv \in {"a", "b"} |->
            IF tv = "a"
            THEN [form |-> "properties", nullable |-> FALSE,
                  properties |->
                     [k \in {"x"} |-> [form |-> "type", nullable |-> FALSE, type |-> "uint8"]],
                  optionalProperties |-> EmptyMap]
            ELSE [form |-> "properties", nullable |-> FALSE,
                  properties |->
                     [k \in {"y"} |-> [form |-> "type", nullable |-> FALSE, type |-> "boolean"]],
                  optionalProperties |-> EmptyMap]]]

TaggedExample == history = <<TaggedA, TaggedB>> => Current = TaggedSchema

(* C10 as stated: discriminator hint -- folding objects that carry a string *)
(* tag emits a discriminator schema with one mapping entry per tag value,   *)
(* each the object schema of the examples so tagged, the tag left out; and  *)
(* {kind:a, x:1} then {kind:b, y:true} gives a -> {x: uint8},               *)
(* b -> {y: boolean}, whatever the default numeric kind.                    *)
DiscriminatorAnyDefault == MappingPerTag /\ TaggedExample

(* C10, amended: discriminator hint -- folding objects that carry a string  *)
(* tag emits a discriminator schema with one mapping entry per tag value,   *)
(* each the object schema of the examples so tagged, the tag left out; with *)
(* default numeric kind uint8, {kind:a, x:1} then {kind:b, y:true} gives    *)
(* a -> {x: uint8}, b -> {y: boolean}.                                      *)
DiscriminatorMapping ==
    MappingPerTag /\ (hints.default_num_type = "uint8" => TaggedExample)

\* the two tagged examples folded under default uint8, and their schema emitted
DiscriminatorWitness ==
    /\ hints.default_num_type = "uint8"
    /\ history = <<TaggedA, TaggedB>>
    /\ emitted = TaggedSchema

\* RFC 6901: the leading slash dropped, the rest split on "/", then in each
\* token ~1 becomes / and after that ~0 becomes ~
Rfc6901(s) ==
    IF s = <<>> THEN <<>>
    ELSE LET tokens == Tail(Split(s, "/"))
         IN [i \in DOMAIN tokens |->
                Cat(Replace(Replace(tokens[i], "~", "1", "/"), "~", "0", "~"))]

(* C4: parse_json_pointer agrees with the RFC 6901 tokenizer on every       *)
(* pointer that is empty or starts with "/": an escaped ~1 makes no extra   *)
(* segment and ~0 in a token becomes ~.                                     *)
PointerAgreesWithRfc6901 ==
    (ptrOut.done /\ (ptr = <<>> \/ ptr[1] = "/")) => ptrOut.path = Rfc6901(ptr)

Decodable(input) == \A i \in DOMAIN input : input[i] # Malformed

(* C5: no partial success in generate_schema -- the values folded are the   *)
(* stream's values in order, one infer call each; schema text is returned   *)
(* only when every item of the stream was decoded and folded, and it is the *)
(* schema of them all; a stream with an undecodable item returns an error   *)
(* and no schema text.                                                      *)
NoPartialSuccess ==
    /\ gen.pos <= Len(gen.params.input)
    /\ history = SubSeq(gen.params.input, 1, gen.pos)
    /\ gen.result.kind = "ok" =>
          /\ gen.pc = "done"
          /\ Decodable(gen.params.input)
          /\ history = gen.params.input
          /\ gen.result.text = to_string(SchemaAfter(gen.params.input))
    /\ gen.pc = "done" =>
          /\ gen.result.kind \in {"ok", "err"}
          /\ gen.result.kind = "err" => DOMAIN gen.result = {"kind", "msg"} /\ emitted = NoSchema
          /\ ~Decodable(gen.params.input) => gen.result.kind = "err"

\* decoding failed at the second item: the first was folded, no schema returned
NoPartialSuccessWitness ==
    /\ gen.pc = "done"
    /\ Len(gen.params.input) = 2
    /\ gen.params.input[1] # Malformed /\ gen.params.input[2] = Malformed
    /\ history = <<gen.params.input[1]>>
    /\ gen.result = Err("decode")

(* C6: a default-number-type name that is none of the eight NumType names   *)
(* makes generate_schema return an error before any example is decoded or   *)
(* folded, whatever the input: no inferrer is built, no schema returned.    *)
InvalidDefaultFailsFirst ==
    gen.params.defaultNumberType \notin NumTypes =>
        /\ hints = NoHints
        /\ inference = NoInferrer
        /\ history = <<>>
        /\ gen.pos = 0
        /\ emitted = NoSchema
        /\ gen.pc \notin {"new_inferrer", "stream"}
        /\ gen.pc = "done" => gen.result.kind = "err"

\* an unknown name with a malformed, non-empty input: the name's error
InvalidDefaultWitness ==
    /\ gen.pc = "done"
    /\ gen.params.valid
    /\ gen.params.defaultNumberType = "int64"
    /\ gen.params.input = <<Malformed, JInt(1)>>
    /\ gen.result = Err("Invalid default number type")

====
